---------------------------- MODULE Spec2Model ----------------------------
(***************************************************************************)
(* Model of the browser scripts of the archive site:                       *)
(*   src/script.js          theme controller and its navbar loader         *)
(*   src/unnamed/part_000   the stand-alone navbar loader                  *)
(*   src/js/sites.js        the site lister                                *)
(* Every action is one run-to-completion job of the event loop: a script's *)
(* top level, a promise callback, an async function between two awaits, or *)
(* a DOM event handler.  Network outcomes are chosen by the environment.   *)
(* The two navbar loaders run on their own pages, each with its own        *)
(* placeholder; they are indexed by Variants.                              *)
(***************************************************************************)
EXTENDS Naturals, Sequences, FiniteSets

VARIABLES
    \* ---- src/script.js and src/unnamed/part_000
    scriptPc,     \* script.js top level: "start" before it ran, "loaded" after
    theme,        \* script.js:13, the module-level `theme` (Null or <<string>>)
    storage,      \* localStorage: a function from the keys present to strings
    rootStyle,    \* inline custom properties of :root, property name -> value
    navFetch,     \* per variant: the fetch(...).then(...).then(...) chain
    getNavbar,    \* per variant: the getNavbar promise, [state, value]
    placeholder,  \* per variant: innerHTML of the element with id "navbar"
    thenPc,       \* per variant: the callback given to getNavbar.then
    checked,      \* the toggle input's checked state
    listener,     \* whether the change listener is attached to the toggle
    \* ---- src/js/sites.js
    sitesPc,      \* position of the async function getSites
    sites,        \* data.sites of the response (sites.js:5)
    iconPc,       \* position of each forEach callback, one per site record
    sitesList     \* children of the element with id "site-list"

themeVars == <<scriptPc, theme, storage, rootStyle, navFetch, getNavbar,
               placeholder, thenPc, checked, listener>>
sitesVars == <<sitesPc, sites, iconPc, sitesList>>
vars == <<scriptPc, theme, storage, rootStyle, navFetch, getNavbar,
          placeholder, thenPc, checked, listener,
          sitesPc, sites, iconPc, sitesList>>

----------------------------------------------------------------------------
(* Bounds                                                                  *)

\* Longest site list the API response carries.
MaxSites == 3

----------------------------------------------------------------------------
(* JavaScript values                                                       *)

\* A nullable string: null is <<>>, the string s is <<s>>.
Null == <<>>

\* localStorage.getItem(key): the stored string, or null when the key is absent.
getItem(store, key) == IF key \in DOMAIN store THEN <<store[key]>> ELSE Null

\* localStorage.setItem(key, value).
setItem(store, key, value) ==
    [k \in (DOMAIN store) \cup {key} |-> IF k = key THEN value ELSE store[k]]

\* Interpolation `${v}` of a nullable string in a template literal.
Interpolate(v) == IF v = Null THEN "null" ELSE v[1]

\* The values the key "theme" may hold before the page loads: the scripts do
\* not control it (absent, a theme, or any other string).
PreloadStorages ==
    {<<>>} \cup {[k \in {"theme"} |-> s] : s \in {"dark", "light", "solarized"}}

Properties ==
    {"--crust", "--mantle", "--base", "--surface0", "--surface1", "--surface2", "--text"}

----------------------------------------------------------------------------
(* src/script.js: theme controller                                         *)

updateThemeTypo(style, t) ==
    [style EXCEPT
        !["--crust"]    = "var(--" \o Interpolate(t) \o "-crust)",
        !["--mantle"]   = "var(--" \o Interpolate(t) \o "-mantle)",
        !["--base"]     = "var(--" \o Interpolate(t) \o "-base)",
        !["--surface0"] = "var(--" \o Interpolate(t) \o "-surface0)",
        !["--surface1"] = "var(--" \o Interpolate(t) \o "-surface1)",
        !["--surface2"] = "var(--" \o Interpolate(t) \o "-surface1)",
        !["--text"]     = "var(--" \o Interpolate(t) \o "-text)"]

\* updateTheme(theme): the seven setProperty calls on :root.
updateTheme(style, t) ==
    [style EXCEPT
        !["--crust"]    = "var(--" \o Interpolate(t) \o "-crust)",
        !["--mantle"]   = "var(--" \o Interpolate(t) \o "-mantle)",
        !["--base"]     = "var(--" \o Interpolate(t) \o "-base)",
        !["--surface0"] = "var(--" \o Interpolate(t) \o "-surface0)",
        !["--surface1"] = "var(--" \o Interpolate(t) \o "-surface1)",
        !["--surface2"] = "var(--" \o Interpolate(t) \o "-surface2)",
        !["--text"]     = "var(--" \o Interpolate(t) \o "-text)"]

LoadStorageAlways(store) == setItem(store, "theme", "dark")

LoadStorageAuto(store) ==
    IF getItem(store, "theme") = Null
    THEN setItem(store, "theme", "auto")
    ELSE store

\* script.js:13-16: the default is written only when the key is absent.
LoadStorage(store) ==
    IF getItem(store, "theme") = Null
    THEN setItem(store, "theme", "dark")
    ELSE store

ThemeOfCheckedSwapped(c) == IF c THEN "dark" ELSE "light"

\* script.js:39: e.target.checked ? "light" : "dark".
ThemeOfChecked(c) == IF c THEN "light" ELSE "dark"

----------------------------------------------------------------------------
(* Navbar loaders: src/script.js:19-42 and src/unnamed/part_000:2-14       *)

Variants == {"script", "navbar"}

\* The markup navbar.html may carry: without the toggle, with it, and with it
\* checked by default.
FragPlain == "<nav></nav>"
FragToggle == "<nav><div id='theme-switch'><input type='checkbox'></div></nav>"
FragToggleChecked ==
    "<nav><div id='theme-switch'><input type='checkbox' checked></div></nav>"
Fragments == {FragPlain, FragToggle, FragToggleChecked}

\* document.getElementById("theme-switch").querySelector("input") finds an input.
HasToggle(html) == html \in {FragToggle, FragToggleChecked}

\* The checked state the parser gives the input.
DefaultChecked(html) == html = FragToggleChecked

ToggleCheckedDefault(html, store) == DefaultChecked(html)

\* script.js:32-36: themeToggle.checked = theme === "light", overriding the
\* state the markup gave the input.
ToggleChecked(html, store) == getItem(store, "theme") = <<"light">>

PendingPromise == [state |-> "pending", value |-> ""]

\* resolve(data) on the promise.
Resolve(p, data) ==
    IF p.state = "pending" THEN [state |-> "fulfilled", value |-> data] ELSE p

OnFetchFailureResolveEmpty(p) == Resolve(p, "")

\* A rejection of fetch() or of response.text(): the chain has no rejection
\* handler and the executor never calls reject, so the promise is untouched.
OnFetchFailure(p) == p

ThenReadyAlways(p) == TRUE

\* A callback given to then() runs only once the promise is fulfilled.
ThenReady(p) == p.state = "fulfilled"

\* script.js:13-29 (variant "script") and part_000:2-12 (variant "navbar"):
\* the top level of the script, up to the registration of the then-callback.
StartLoader(v) ==
    /\ navFetch' = [navFetch EXCEPT ![v] = "fetch"]
    /\ getNavbar' = [getNavbar EXCEPT ![v] = PendingPromise]
    /\ thenPc' = [thenPc EXCEPT ![v] = "registered"]

LoadScript ==
    /\ scriptPc = "start"
    /\ scriptPc' = "loaded"
    /\ theme' = getItem(storage, "theme")
    /\ storage' = LoadStorage(storage)
    /\ rootStyle' = updateTheme(rootStyle, getItem(storage', "theme"))
    /\ StartLoader("script")
    /\ UNCHANGED <<placeholder, checked, listener>>
    /\ UNCHANGED sitesVars

LoadNavbar ==
    /\ navFetch["navbar"] = "idle"
    /\ StartLoader("navbar")
    /\ UNCHANGED <<scriptPc, theme, storage, rootStyle, placeholder, checked, listener>>
    /\ UNCHANGED sitesVars

\* fetch("navbar.html") resolves; the first then-callback calls response.text().
FetchResolve(v) ==
    /\ navFetch[v] = "fetch"
    /\ navFetch' = [navFetch EXCEPT ![v] = "text"]
    /\ UNCHANGED <<scriptPc, theme, storage, rootStyle, getNavbar, placeholder,
                   thenPc, checked, listener>>
    /\ UNCHANGED sitesVars

\* fetch("navbar.html") or response.text() rejects.
FetchReject(v) ==
    /\ navFetch[v] \in {"fetch", "text"}
    /\ navFetch' = [navFetch EXCEPT ![v] = "failed"]
    /\ getNavbar' = [getNavbar EXCEPT ![v] = OnFetchFailure(getNavbar[v])]
    /\ UNCHANGED <<scriptPc, theme, storage, rootStyle, placeholder,
                   thenPc, checked, listener>>
    /\ UNCHANGED sitesVars

\* response.text() resolves with data; the second then-callback calls resolve(data).
TextResolve(v, data) ==
    /\ navFetch[v] = "text"
    /\ navFetch' = [navFetch EXCEPT ![v] = "done"]
    /\ getNavbar' = [getNavbar EXCEPT ![v] = Resolve(getNavbar[v], data)]
    /\ UNCHANGED <<scriptPc, theme, storage, rootStyle, placeholder,
                   thenPc, checked, listener>>
    /\ UNCHANGED sitesVars

\* part_000:12-14: the callback only injects the fragment.
NavbarThen ==
    /\ thenPc["navbar"] = "registered"
    /\ ThenReady(getNavbar["navbar"])
    /\ placeholder' = [placeholder EXCEPT !["navbar"] = getNavbar["navbar"].value]
    /\ thenPc' = [thenPc EXCEPT !["navbar"] = "done"]
    /\ UNCHANGED <<scriptPc, theme, storage, rootStyle, navFetch, getNavbar,
                   checked, listener>>
    /\ UNCHANGED sitesVars

\* script.js:29-42: inject the fragment, then look the toggle up and wire it.
\* Without the toggle in the fragment, getElementById returns null and line 34
\* throws: nothing after the injection happens.
ScriptThen ==
    /\ thenPc["script"] = "registered"
    /\ ThenReady(getNavbar["script"])
    /\ placeholder' = [placeholder EXCEPT !["script"] = getNavbar["script"].value]
    /\ IF HasToggle(placeholder'["script"])
       THEN /\ checked' = ToggleChecked(placeholder'["script"], storage)
            /\ listener' = TRUE
            /\ thenPc' = [thenPc EXCEPT !["script"] = "done"]
       ELSE /\ checked' = FALSE
            /\ listener' = FALSE
            /\ thenPc' = [thenPc EXCEPT !["script"] = "threw"]
    /\ UNCHANGED <<scriptPc, theme, storage, rootStyle, navFetch, getNavbar>>
    /\ UNCHANGED sitesVars

\* The user flips the toggle: the browser changes checked and fires "change";
\* script.js:38-41 is the listener.
Change ==
    /\ HasToggle(placeholder["script"])
    /\ checked' = ~checked
    /\ IF listener
       THEN /\ storage' = setItem(storage, "theme", ThemeOfChecked(checked'))
            /\ rootStyle' = updateTheme(rootStyle, getItem(storage', "theme"))
       ELSE UNCHANGED <<storage, rootStyle>>
    /\ UNCHANGED <<scriptPc, theme, navFetch, getNavbar, placeholder, thenPc, listener>>
    /\ UNCHANGED sitesVars

InitTheme ==
    /\ scriptPc = "start"
    /\ theme = Null
    /\ storage \in PreloadStorages
    /\ rootStyle = [p \in Properties |-> ""]
    /\ navFetch = [v \in Variants |-> "idle"]
    /\ getNavbar = [v \in Variants |-> PendingPromise]
    /\ placeholder = [v \in Variants |-> ""]
    /\ thenPc = [v \in Variants |-> "none"]
    /\ checked = FALSE
    /\ listener = FALSE

NextTheme ==
    \/ LoadScript
    \/ LoadNavbar
    \/ \E v \in Variants : FetchResolve(v)
    \/ \E v \in Variants : FetchReject(v)
    \/ \E v \in Variants, data \in Fragments : TextResolve(v, data)
    \/ NavbarThen
    \/ ScriptThen
    \/ Change

----------------------------------------------------------------------------
(* src/js/sites.js: site lister                                            *)

Names == {"a", "b"}

\* A site record of the API: { name, data: { title, description } }.
SiteRecord(n) ==
    [name |-> n, data |-> [title |-> "Site " \o n, description |-> "About " \o n]]

SiteLists == UNION {[1..n -> {SiteRecord(x) : x \in Names}] : n \in 0..MaxSites}

\* The bodies response.json() may resolve with: { sites: [...] }, or an object
\* without the sites field.
Responses == {[sites |-> l] : l \in SiteLists} \cup {[error |-> "not found"]}

\* What the container may hold before getSites runs: nothing, or static markup.
StaticElement ==
    [tag |-> "p", record |-> 0, href |-> "", icon |-> "", title |-> "", description |-> ""]
PriorContents == {<<>>, <<StaticElement>>}

\* sites.js:9-35: the card built by the callback of record i; `record` is the
\* identity of the element (one createElement("a") per callback).
Card(i, site) ==
    [tag |-> "a",
     record |-> i,
     href |-> "/sites/" \o site.name,
     icon |-> "blob:/sites/" \o site.name \o "/favicon.ico",
     title |-> site.data.title,
     description |-> site.data.description]

InnerHTMLKeep(children) == children

\* sites.js:7: sitesList.innerHTML = "".
InnerHTMLClear(children) == <<>>

appendChildReplacing(children, el) == <<el>>

\* sites.js:36: sitesList.appendChild(link).
appendChild(children, el) == Append(children, el)

forEachSequential(ss) == [i \in 1..Len(ss) |-> IF i = 1 THEN "fetch" ELSE "queued"]

\* sites.js:8-15: forEach calls the async callback of every record in turn;
\* each runs to its first await (the icon fetch) and returns its promise, which
\* forEach drops, so all icon fetches are in flight when forEach returns.
forEach(ss) == [i \in 1..Len(ss) |-> "fetch"]

OnIconRejectAppend(children, el) == Append(children, el)

\* sites.js:15-16: a rejected await throws out of the callback; lines 18-36
\* are skipped and the container is left as it is.
OnIconReject(children, el) == children

\* sites.js:40: getSites() runs to its first await, the fetch of /api/sites.
CallGetSites ==
    /\ sitesPc = "start"
    /\ sitesPc' = "fetch"
    /\ UNCHANGED <<sites, iconPc, sitesList>>
    /\ UNCHANGED themeVars

\* sites.js:2-3: the fetch resolves; getSites goes on to await json().
SitesFetchResolve ==
    /\ sitesPc = "fetch"
    /\ sitesPc' = "json"
    /\ UNCHANGED <<sites, iconPc, sitesList>>
    /\ UNCHANGED themeVars

\* sites.js:2-3: the fetch or json() rejects; getSites rejects, and the
\* then(()=>{}) of line 40 has no rejection handler.
SitesReject ==
    /\ sitesPc \in {"fetch", "json"}
    /\ sitesPc' = "failed"
    /\ UNCHANGED <<sites, iconPc, sitesList>>
    /\ UNCHANGED themeVars

\* sites.js:3-38: json() resolves with data; the container is cleared and the
\* callbacks are started.  Without data.sites, line 8 throws after the clear.
SitesJsonResolve(data) ==
    /\ sitesPc = "json"
    /\ sitesList' = InnerHTMLClear(sitesList)
    /\ IF "sites" \in DOMAIN data
       THEN /\ sites' = data.sites
            /\ iconPc' = forEach(data.sites)
            /\ sitesPc' = "spawned"
       ELSE /\ sitesPc' = "threw"
            /\ UNCHANGED <<sites, iconPc>>
    /\ UNCHANGED themeVars

\* sites.js:15-16: the icon fetch of record i resolves; the callback awaits blob().
IconFetchResolve(i) ==
    /\ i \in DOMAIN iconPc
    /\ iconPc[i] = "fetch"
    /\ iconPc' = [iconPc EXCEPT ![i] = "blob"]
    /\ UNCHANGED <<sitesPc, sites, sitesList>>
    /\ UNCHANGED themeVars

\* sites.js:15-16: the icon fetch of record i, or its blob(), rejects.
IconReject(i) ==
    /\ i \in DOMAIN iconPc
    /\ iconPc[i] \in {"fetch", "blob"}
    /\ iconPc' = [iconPc EXCEPT ![i] = "failed"]
    /\ sitesList' = OnIconReject(sitesList, Card(i, sites[i]))
    /\ UNCHANGED <<sitesPc, sites>>
    /\ UNCHANGED themeVars

\* sites.js:16-36: blob() of record i resolves; the card is built and appended.
IconBlobResolve(i) ==
    /\ i \in DOMAIN iconPc
    /\ iconPc[i] = "blob"
    /\ iconPc' = [iconPc EXCEPT ![i] = "done"]
    /\ sitesList' = appendChild(sitesList, Card(i, sites[i]))
    /\ UNCHANGED <<sitesPc, sites>>
    /\ UNCHANGED themeVars

InitSites ==
    /\ sitesPc = "start"
    /\ sites = <<>>
    /\ iconPc = <<>>
    /\ sitesList \in PriorContents

NextSites ==
    \/ CallGetSites
    \/ SitesFetchResolve
    \/ SitesReject
    \/ \E data \in Responses : SitesJsonResolve(data)
    \/ \E i \in 1..MaxSites : IconFetchResolve(i)
    \/ \E i \in 1..MaxSites : IconReject(i)
    \/ \E i \in 1..MaxSites : IconBlobResolve(i)

----------------------------------------------------------------------------
(* Specifications                                                          *)

Init == InitTheme /\ InitSites

Next == NextTheme \/ NextSites

\* All scripts together.
Spec == Init /\ [][Next]_vars

\* The page of the theme controller and the page of the stand-alone loader.
ThemeSpec == Init /\ [][NextTheme]_vars

\* The page of the site lister.
SitesSpec == Init /\ [][NextSites]_vars

\* The site lister with a network that answers: every request that can still
\* succeed eventually does, unless it fails first.
SitesLive ==
    /\ Init
    /\ [][NextSites]_vars
    /\ WF_vars(CallGetSites)
    /\ WF_vars(SitesFetchResolve)
    /\ WF_vars(\E data \in Responses : SitesJsonResolve(data))
    /\ \A i \in 1..MaxSites : WF_vars(IconFetchResolve(i))
    /\ \A i \in 1..MaxSites : WF_vars(IconBlobResolve(i))

----------------------------------------------------------------------------
(* Vocabulary of the properties                                            *)

Themes == {"dark", "light"}

\* The value stored under the key "theme" (Null when absent).
Stored == getItem(storage, "theme")

\* The root properties referencing the --dark-* / --light-* variants.
DarkStyle ==
    [p \in Properties |->
        CASE p = "--crust"    -> "var(--dark-crust)"
          [] p = "--mantle"   -> "var(--dark-mantle)"
          [] p = "--base"     -> "var(--dark-base)"
          [] p = "--surface0" -> "var(--dark-surface0)"
          [] p = "--surface1" -> "var(--dark-surface1)"
          [] p = "--surface2" -> "var(--dark-surface2)"
          [] p = "--text"     -> "var(--dark-text)"]
LightStyle ==
    [p \in Properties |->
        CASE p = "--crust"    -> "var(--light-crust)"
          [] p = "--mantle"   -> "var(--light-mantle)"
          [] p = "--base"     -> "var(--light-base)"
          [] p = "--surface0" -> "var(--light-surface0)"
          [] p = "--surface1" -> "var(--light-surface1)"
          [] p = "--surface2" -> "var(--light-surface2)"
          [] p = "--text"     -> "var(--light-text)"]

\* The card of record i is a child of the container.
HasCard(i) == \E k \in 1..Len(sitesList) : sitesList[k] = Card(i, sites[i])

\* Number of children of the container that are the card of record i.
CardCount(i) == Cardinality({k \in 1..Len(sitesList) : sitesList[k] = Card(i, sites[i])})

\* The container holds one card per record and nothing else.
ExactlyCards ==
    /\ Len(sitesList) = Len(sites)
    /\ \A i \in 1..Len(sites) : CardCount(i) = 1

\* Some request of the lister was rejected, or the response had no site list.
SitesFailure ==
    \/ sitesPc \in {"failed", "threw"}
    \/ \E i \in DOMAIN iconPc : iconPc[i] = "failed"

\* The container has been cleared by getSites (sites.js:7 has run).
Cleared == sitesPc \in {"spawned", "threw"}

----------------------------------------------------------------------------
(* Properties of the site lister                                           *)

\* C1: when the site-list response carries N records and no request fails, the
\* container eventually holds exactly one card per record and nothing else
\* (whatever it held before is gone), and stays so; for N = 0 it ends empty.
C1_ListerFillsContainer ==
    (<>SitesFailure) \/ <>[](sitesPc = "spawned" /\ ExactlyCards)

C1_Witness ==
    /\ sitesPc = "spawned"
    /\ Len(sites) >= 2
    /\ ~SitesFailure
    /\ ExactlyCards

\* C8: a failure leaves a partial or empty list and nothing else.  The card of
\* a record whose icon request failed is not in the container; the card of a
\* record whose icon requests succeeded is there once; a failure of one record
\* leaves the pending requests of the others able to complete; and when the
\* site-list request or its parsing fails the container holds no card.
C8_FailureGivesPartialList ==
    /\ \A i \in DOMAIN iconPc :
          /\ iconPc[i] = "failed" => ~HasCard(i)
          /\ iconPc[i] = "done" => CardCount(i) = 1
          /\ iconPc[i] = "fetch" => ENABLED IconFetchResolve(i)
          /\ iconPc[i] = "blob" => ENABLED IconBlobResolve(i)
    /\ sitesPc \in {"failed", "threw"} =>
          \A k \in 1..Len(sitesList) : sitesList[k].tag # "a"

C8_Witness ==
    \E i, j \in DOMAIN iconPc :
        /\ iconPc[i] = "failed" /\ ~HasCard(i)
        /\ iconPc[j] = "done" /\ HasCard(j)
        /\ Len(sitesList) = 1

\* C9: cards are appended as the icon requests complete, not in list order.
\* Once the callbacks are started every record's requests are in flight at
\* once (none waits for another record), and whichever record's blob is
\* pending can be the next one appended, at the end of the container; so every
\* order of the cards can be produced.
C9_AppendInCompletionOrder ==
    sitesPc = "spawned" =>
        \A i \in DOMAIN iconPc :
            /\ iconPc[i] \in {"fetch", "blob", "done", "failed"}
            /\ iconPc[i] = "fetch" => ENABLED IconFetchResolve(i)
            /\ iconPc[i] = "blob" =>
                  ENABLED (IconBlobResolve(i)
                           /\ sitesList' = Append(sitesList, Card(i, sites[i])))

\* The container ends with the cards in the reverse of the list order.
C9_Witness ==
    /\ sitesPc = "spawned"
    /\ Len(sites) = MaxSites
    /\ Len(sitesList) = Len(sites)
    /\ \A k \in 1..Len(sitesList) :
          sitesList[k] = Card(Len(sites) + 1 - k, sites[Len(sites) + 1 - k])

\* C10: the container is cleared in one step of getSites, which happens at
\* most once and before any card is appended; before it the lister does not
\* touch the container, and after it every change of the container appends one
\* card that was not there, leaving the cards already there in place.
C10_ClearOnceThenAppendOnly ==
    [][ /\ (~Cleared /\ Cleared') => (sitesPc = "json" /\ sitesList' = <<>>)
        /\ Cleared => (Cleared' /\ sitesPc' = sitesPc)
        /\ (~Cleared /\ ~Cleared') => sitesList' = sitesList
        /\ (Cleared /\ sitesList' # sitesList) =>
              \E i \in DOMAIN iconPc :
                  /\ ~HasCard(i)
                  /\ sitesList' = Append(sitesList, Card(i, sites[i]))
      ]_vars

\* A later record's card is in the container while the first record's
\* requests are still pending.
C10_Witness ==
    /\ sitesPc = "spawned"
    /\ Len(sitesList) >= 1
    /\ sitesList[1].record > 1
    /\ iconPc[1] \in {"fetch", "blob"}

----------------------------------------------------------------------------
(* Properties of the theme controller and the navbar loaders               *)

\* C2: when the key is absent as script.js loads, the load step stores "dark"
\* and sets each of the seven root properties to its --dark-* variant.
C2_AbsentKeyDefaultsToDark ==
    [][ (scriptPc = "start" /\ scriptPc' = "loaded" /\ Stored = Null) =>
            (Stored' = <<"dark">> /\ rootStyle' = DarkStyle) ]_vars

C2_Witness ==
    /\ scriptPc = "loaded"
    /\ theme = Null
    /\ thenPc["script"] = "registered"
    /\ Stored = <<"dark">>
    /\ rootStyle = DarkStyle

\* C3: once the listener is attached, every change of the toggle stores "light"
\* when the box is now checked and "dark" when it is now unchecked, and sets
\* the root properties to the matching variants.
C3_ToggleStoresAndApplies ==
    [][ (listener /\ checked' # checked) =>
            /\ Stored' = <<IF checked' THEN "light" ELSE "dark">>
            /\ rootStyle' = IF checked' THEN LightStyle ELSE DarkStyle ]_vars

\* The key was absent at load (so "dark" was stored) and the box got checked.
C3_Witness ==
    /\ theme = Null
    /\ listener
    /\ checked
    /\ Stored = <<"light">>
    /\ rootStyle = LightStyle

\* C4: the then-callback of a loader has run only if the fragment request
\* resolved, and it has injected the fragment; the listener is attached only by
\* that callback, after the injection; and as long as the request of script.js
\* has not resolved there is no listener and the stored theme is the one the
\* load step left.
C4_WiringAfterInjection ==
    /\ \A v \in Variants :
          thenPc[v] \in {"done", "threw"} =>
              /\ navFetch[v] = "done"
              /\ getNavbar[v].state = "fulfilled"
              /\ placeholder[v] = getNavbar[v].value
    /\ listener => (thenPc["script"] = "done" /\ HasToggle(placeholder["script"]))
    /\ (scriptPc = "loaded" /\ navFetch["script"] # "done") =>
          /\ ~listener
          /\ Stored = (IF theme = Null THEN <<"dark">> ELSE theme)

C4_Witness ==
    /\ listener
    /\ navFetch["script"] = "done"
    /\ HasToggle(placeholder["script"])
    /\ navFetch["navbar"] = "fetch"

\* C5 as claimed: after the load step the stored theme is "dark" or "light",
\* whatever the key held before the page loaded.
C5_StoredAlwaysTheme ==
    scriptPc = "loaded" => (Stored # Null /\ Stored[1] \in Themes)

\* C5 as amended: after the load step the stored value is "dark" or "light",
\* or it is the other string the key already held before the page loaded,
\* which the load step keeps and only a change of the toggle replaces.
C5_StoredThemeOrPreloaded ==
    scriptPc = "loaded" =>
        /\ Stored # Null
        /\ \/ Stored[1] \in Themes
           \/ (theme # Null /\ theme[1] \notin Themes /\ Stored = theme)

\* A foreign value found at load has been replaced by a change of the toggle.
C5_Witness ==
    /\ scriptPc = "loaded"
    /\ theme = <<"solarized">>
    /\ Stored = <<"light">>

\* C6: no step removes the key, and a stored preference changes only in a
\* change event of the wired toggle: not in the load step, which keeps a
\* preference it finds, and not in the injection and wiring.
C6_OnlyToggleMutates ==
    [][ /\ Stored # Null => Stored' # Null
        /\ (Stored # Null /\ Stored' # Stored) =>
              /\ listener
              /\ HasToggle(placeholder["script"])
              /\ checked' = ~checked
              /\ <<scriptPc, thenPc, navFetch, placeholder>>' =
                    <<scriptPc, thenPc, navFetch, placeholder>> ]_vars

\* The load step found "light", kept it, and the toggle was wired from it.
C6_Witness ==
    /\ scriptPc = "loaded"
    /\ theme = <<"light">>
    /\ Stored = <<"light">>
    /\ listener
    /\ checked

\* C7: once the fragment request of a loader has failed, its getNavbar promise
\* is still pending, its then-callback has not run and its placeholder is
\* empty; and the request stays failed, so this lasts.
C7_FailedFetchNeverSettles ==
    /\ [](\A v \in Variants :
            navFetch[v] = "failed" =>
                /\ getNavbar[v].state = "pending"
                /\ thenPc[v] = "registered"
                /\ placeholder[v] = "")
    /\ [][\A v \in Variants : navFetch[v] = "failed" => navFetch'[v] = "failed"]_vars

C7_Witness ==
    /\ navFetch["navbar"] = "failed"
    /\ navFetch["script"] = "failed"
    /\ placeholder = [v \in Variants |-> ""]

\* The part of a root property's name after the two dashes.
LayerOf(p) ==
    CASE p = "--crust"    -> "crust"
      [] p = "--mantle"   -> "mantle"
      [] p = "--base"     -> "base"
      [] p = "--surface0" -> "surface0"
      [] p = "--surface1" -> "surface1"
      [] p = "--surface2" -> "surface2"
      [] p = "--text"     -> "text"

\* The root properties when theme t is applied: each references --t-<layer>.
StyleOf(t) == [p \in Properties |-> "var(--" \o t \o "-" \o LayerOf(p) \o ")"]

\* C11: after the load step the theme applied to the root properties is the
\* theme stored (in every state, hence between any two events), and once the
\* listener is attached the toggle is checked exactly when the stored theme is
\* "light", after any sequence of change events.
C11_AppliedAndToggleMatchStored ==
    /\ scriptPc = "loaded" => (Stored # Null /\ rootStyle = StyleOf(Stored[1]))
    /\ listener => (checked <=> Stored = <<"light">>)

\* The load found "dark", the markup had the box checked by default, the
\* wiring unchecked it, and a change event then checked it.
C11_Witness ==
    /\ theme = <<"dark">>
    /\ placeholder["script"] = FragToggleChecked
    /\ listener
    /\ checked
    /\ Stored = <<"light">>
    /\ rootStyle = StyleOf("light")

=============================================================================
